---- MODULE Spec2Model ----
(***************************************************************************)
(* Model of the California Housing batch pipeline: the Cleaner             *)
(* (scripts/02_limpiar_datos.py) and the Feature Deriver                   *)
(* (03_crear_features.py), each a script that reads one CSV snapshot and   *)
(* writes another.  Cell values are pandas float64 values, modelled as     *)
(* exact extended rationals so that infinities, NaN and quantile           *)
(* interpolation behave as they do in the code.                            *)
(***************************************************************************)
EXTENDS Integers, Sequences, FiniteSets, TLC

\* rawFile, cleanFile, featFile: raw_data_<year>.csv, clean_data_<year>.csv and
\* features_<year>.csv; clean2File: what the Cleaner writes when it is run
\* again on its own output.  df[s]: the DataFrame of stage s when it returned
\* or raised.  args: the Cleaner's remove_outliers.  run[s]: whether stage s
\* has run, its exit code and the exception it ended with.  orq: the
\* orchestrator run_pipeline.py (idle when the stages are run by hand).
VARIABLES rawFile, cleanFile, clean2File, featFile, df, args, run, orq

vars == <<rawFile, cleanFile, clean2File, featFile, df, args, run, orq>>

(***************************************************************************)
(* float64 values.  k = "fin": the rational n/d (d > 0, lowest terms);     *)
(* "pinf", "ninf", "nan": the IEEE specials; "log1p": log(1 + n/d), a      *)
(* finite real; "sgnsqrt": sign(n) * sqrt(|n|/d), a finite real.           *)
(***************************************************************************)
RECURSIVE Gcd(_, _)
Gcd(a, b) == IF b = 0 THEN a ELSE Gcd(b, a % b)

Abs(x) == IF x < 0 THEN -x ELSE x

NaN == [k |-> "nan", n |-> 0, d |-> 1]
PosInf == [k |-> "pinf", n |-> 0, d |-> 1]
NegInf == [k |-> "ninf", n |-> 0, d |-> 1]

\* The float n/d for integers n and d # 0, in lowest terms with d > 0.
Fin(n, d) ==
    LET g == Gcd(Abs(n), Abs(d))
        s == IF d < 0 THEN -1 ELSE 1
    IN  [k |-> "fin", n |-> (s * n) \div g, d |-> (s * d) \div g]

Num(i) == Fin(i, 1)

IsNull(x) == x.k = "nan"
IsFinite(x) == x.k \in {"fin", "log1p", "sgnsqrt"}

\* Arithmetic on finite values and NaN (the operands the stages produce).
Add(a, b) == IF a.k = "fin" /\ b.k = "fin"
             THEN Fin(a.n * b.d + b.n * a.d, a.d * b.d) ELSE NaN
Sub(a, b) == IF a.k = "fin" /\ b.k = "fin"
             THEN Fin(a.n * b.d - b.n * a.d, a.d * b.d) ELSE NaN
Mul(a, b) == IF a.k = "fin" /\ b.k = "fin"
             THEN Fin(a.n * b.n, a.d * b.d) ELSE NaN
\* IEEE division: x/0 is +inf or -inf by the sign of x, 0/0 is NaN.
Div(a, b) ==
    IF a.k = "fin" /\ b.k = "fin"
    THEN IF b.n # 0 THEN Fin(a.n * b.d, a.d * b.n)
         ELSE IF a.n > 0 THEN PosInf
         ELSE IF a.n < 0 THEN NegInf
         ELSE NaN
    ELSE NaN

\* Comparisons: every comparison with NaN is False.
Lt(a, b) ==
    \/ a.k = "fin" /\ b.k = "fin" /\ a.n * b.d < b.n * a.d
    \/ a.k = "ninf" /\ b.k \in {"fin", "pinf"}
    \/ a.k = "fin" /\ b.k = "pinf"
Gt(a, b) == Lt(b, a)
Le(a, b) == Lt(a, b) \/ (a.k \in {"fin", "pinf", "ninf"} /\ a = b)

(***************************************************************************)
(* Frames.  A CSV file is [exists, cols, rows]: the header and the data    *)
(* rows, each row a function from the column names to values.  A           *)
(* DataFrame is [cols, idx, rows]: idx[i] is the index label of rows[i].   *)
(***************************************************************************)
NoFile == [exists |-> FALSE, cols |-> <<>>, rows |-> <<>>]

Range(s) == {s[i] : i \in DOMAIN s}

HasCol(f, c) == c \in Range(f.cols)

\* The values of column c, in row order.
Col(f, c) == [i \in DOMAIN f.rows |-> f.rows[i][c]]

RECURSIVE SelectIdx(_, _)
\* The positions of 1..Len that satisfy keep, ascending.
SelectIdx(n, keep) ==
    IF n = 0 THEN <<>>
    ELSE IF n \in keep THEN Append(SelectIdx(n - 1, keep), n)
    ELSE SelectIdx(n - 1, keep)

\* df[mask]: the rows at the positions in keep, labels and order kept.
FilterRows(f, keep) ==
    LET p == SelectIdx(Len(f.rows), keep)
    IN  [cols |-> f.cols,
         idx  |-> [i \in DOMAIN p |-> f.idx[p[i]]],
         rows |-> [i \in DOMAIN p |-> f.rows[p[i]]]]

\* pd.read_csv: the table of the file under a fresh RangeIndex.
ReadCsv(file) ==
    [cols |-> file.cols,
     idx  |-> [i \in DOMAIN file.rows |-> i],
     rows |-> file.rows]

\* df.to_csv(path, index=False): header and rows, the index is not written.
ToCsv(f) == [exists |-> TRUE, cols |-> f.cols, rows |-> f.rows]

\* df.drop(columns=names)
DropCols(f, names) ==
    LET keepc == SelectSeq(f.cols, LAMBDA c : c \notin names)
    IN  [cols |-> keepc,
         idx  |-> f.idx,
         rows |-> [i \in DOMAIN f.rows |-> [c \in Range(keepc) |-> f.rows[i][c]]]]

\* df[name] = values: a new column goes last, an existing one is overwritten.
SetCol(f, name, values) ==
    [cols |-> IF HasCol(f, name) THEN f.cols ELSE Append(f.cols, name),
     idx  |-> f.idx,
     rows |-> [i \in DOMAIN f.rows |->
                 [c \in Range(f.cols) \cup {name} |->
                     IF c = name THEN values[i] ELSE f.rows[i][c]]]]

(***************************************************************************)
(* Series.quantile(p/q): NaN skipped, linear interpolation between the     *)
(* two order statistics around position (p/q)*(n-1).                       *)
(***************************************************************************)
Valid(s) == SelectSeq(s, LAMBDA x : ~IsNull(x))

Sorted(s) == SortSeq(s, LAMBDA a, b : Lt(a, b))

Quantile(s, p, q) ==
    LET v == Sorted(Valid(s))
        n == Len(v)
    IN  IF n = 0 THEN NaN
        ELSE LET pos == p * (n - 1)
                 lo  == pos \div q
                 fr  == pos % q
             IN  IF fr = 0 THEN v[lo + 1]
                 ELSE Add(v[lo + 1], Mul(Fin(fr, q), Sub(v[lo + 2], v[lo + 1])))

(***************************************************************************)
(* scripts/02_limpiar_datos.py                                             *)
(***************************************************************************)
\* The factor of the IQR rule, 1.5, as the fraction 3/2.
FactorNum == 3
FactorDen == 2

\* Mutant: the IQR rule with the factor doubled.
DetectarOutliersIqrFactorDoble(f, columna) ==
    LET s   == Col(f, columna)
        Q1  == Quantile(s, 1, 4)
        Q3  == Quantile(s, 3, 4)
        IQR == Sub(Q3, Q1)
        limite_inferior == Sub(Q1, Mul(Fin(2 * FactorNum, FactorDen), IQR))
        limite_superior == Add(Q3, Mul(Fin(2 * FactorNum, FactorDen), IQR))
    IN  {i \in DOMAIN s : Lt(s[i], limite_inferior) \/ Gt(s[i], limite_superior)}

\* The positions of the rows the IQR rule marks as outliers of column c.
DetectarOutliersIqr(f, columna) ==
    LET s   == Col(f, columna)
        Q1  == Quantile(s, 1, 4)
        Q3  == Quantile(s, 3, 4)
        IQR == Sub(Q3, Q1)
        limite_inferior == Sub(Q1, Mul(Fin(FactorNum, FactorDen), IQR))
        limite_superior == Add(Q3, Mul(Fin(FactorNum, FactorDen), IQR))
    IN  {i \in DOMAIN s : Lt(s[i], limite_inferior) \/ Gt(s[i], limite_superior)}

\* df.columns[df.isnull().all()]: all() over no rows is True.
ColumnasNulas(f) ==
    {c \in Range(f.cols) : \A i \in DOMAIN f.rows : IsNull(f.rows[i][c])}

\* df.duplicated(): a row equal (NaN equal to NaN) to an earlier row.
Duplicated(f) ==
    {i \in DOMAIN f.rows : \E j \in 1..(i - 1) : f.rows[j] = f.rows[i]}

\* Mutant: drop_duplicates(keep="last").
DropDuplicatesLast(f) ==
    FilterRows(f, {i \in DOMAIN f.rows :
                     ~\E j \in (i + 1)..Len(f.rows) : f.rows[j] = f.rows[i]})

\* df.drop_duplicates(): keep="first".
DropDuplicates(f) == FilterRows(f, DOMAIN f.rows \ Duplicated(f))

\* Mutant: the outlier filter applied whatever remove_outliers says.
RemoverOutliersSiempre(f, remove_outliers) ==
    IF HasCol(f, "MedHouseVal")
    THEN FilterRows(f, DOMAIN f.rows \ DetectarOutliersIqr(f, "MedHouseVal"))
    ELSE f

\* Step 3: the outlier filter on MedHouseVal.
RemoverOutliers(f, remove_outliers) ==
    IF remove_outliers /\ HasCol(f, "MedHouseVal")
    THEN FilterRows(f, DOMAIN f.rows \ DetectarOutliersIqr(f, "MedHouseVal"))
    ELSE f

\* Mutant: df[df[c] >= 0].
PositivosNoNegativos(f, c) ==
    IF HasCol(f, c)
    THEN FilterRows(f, {i \in DOMAIN f.rows : Le(Num(0), f.rows[i][c])})
    ELSE f

\* df[df[c] > 0] when the column exists.
Positivos(f, c) ==
    IF HasCol(f, c)
    THEN FilterRows(f, {i \in DOMAIN f.rows : Gt(f.rows[i][c], Num(0))})
    ELSE f

\* Mutant: range validation of the rooms only.
ValidarRangosSinPoblacion(f) == Positivos(f, "AveRooms")

\* Step 4: range validation, rooms and then population.
ValidarRangos(f) == Positivos(Positivos(f, "AveRooms"), "Population")

\* Step 5: data_quality_score = 1.0 on every surviving row.
AgregarCalidad(f) ==
    SetCol(f, "data_quality_score", [i \in DOMAIN f.rows |-> Num(1)])

\* The frame limpiar_datos writes for the frame it read.
LimpiarFrame(f, remove_outliers) ==
    AgregarCalidad(
        ValidarRangos(
            RemoverOutliers(
                DropDuplicates(DropCols(f, ColumnasNulas(f))),
                remove_outliers)))

\* Mutant: a missing input answered with an empty output and a normal return.
LimpiarDatosSinError(input, remove_outliers) ==
    LET f0 == ReadCsv(IF input.exists THEN input ELSE NoFile)
        f  == LimpiarFrame(f0, remove_outliers)
    IN  [df |-> f, out |-> ToCsv(f), wrote |-> TRUE,
         err |-> IF input.exists /\ Len(f0.rows) = 0
                 THEN "ZeroDivisionError" ELSE "none"]

\* limpiar_datos on an input file: the frame at return or at the raise, the
\* file written (none before the existence check fails, none when
\* pd.read_csv finds no header line and raises EmptyDataError), and the
\* exception: the retained-percentage division raises after the write when
\* the input has no rows.
LimpiarDatos(input, remove_outliers) ==
    IF ~input.exists
    THEN [df |-> ReadCsv(NoFile), out |-> NoFile, wrote |-> FALSE,
          err |-> "FileNotFoundError"]
    ELSE IF input.cols = <<>>
    THEN [df |-> ReadCsv(NoFile), out |-> NoFile, wrote |-> FALSE,
          err |-> "EmptyDataError"]
    ELSE LET f0 == ReadCsv(input)
             f  == LimpiarFrame(f0, remove_outliers)
         IN  [df |-> f, out |-> ToCsv(f), wrote |-> TRUE,
              err |-> IF Len(f0.rows) = 0 THEN "ZeroDivisionError" ELSE "none"]

\* main() of a stage: exit code 1 when the stage function raised, else 0.
ExitCode(e) == IF e = "none" THEN 0 ELSE 1

(***************************************************************************)
(* 03_crear_features.py                                                    *)
(***************************************************************************)
RECURSIVE SumSeq(_)
SumSeq(s) == IF s = <<>> THEN Num(0) ELSE Add(Head(s), SumSeq(Tail(s)))

\* Series.mean(): NaN skipped; NaN when nothing is left.
Mean(s) ==
    LET v == Valid(s)
    IN  IF Len(v) = 0 THEN NaN ELSE Div(SumSeq(v), Num(Len(v)))

\* The square of Series.std() (ddof=1, NaN skipped); NaN below two values.
Variance(s) ==
    LET v == Valid(s)
        m == Mean(s)
        sq == [i \in DOMAIN v |-> Mul(Sub(v[i], m), Sub(v[i], m))]
    IN  IF Len(v) < 2 THEN NaN ELSE Div(SumSeq(sq), Num(Len(v) - 1))

\* Series.median(): NaN skipped; the middle value or the mean of the two.
Median(s) ==
    LET v == Sorted(Valid(s))
        n == Len(v)
    IN  IF n = 0 THEN NaN
        ELSE IF n % 2 = 1 THEN v[(n + 1) \div 2]
        ELSE Div(Add(v[n \div 2], v[n \div 2 + 1]), Num(2))

\* Series.replace([np.inf, -np.inf], np.nan)
ReplaceInf(s) == [i \in DOMAIN s |-> IF s[i].k \in {"pinf", "ninf"} THEN NaN ELSE s[i]]

\* Mutant: Series.fillna(0).
FillNaCero(s, value) == [i \in DOMAIN s |-> IF IsNull(s[i]) THEN Num(0) ELSE s[i]]

\* Series.fillna(value): filling with NaN leaves the NaN in place.
FillNa(s, value) == [i \in DOMAIN s |-> IF IsNull(s[i]) THEN value ELSE s[i]]

\* np.log1p: log(1 + x) for x > -1, -inf at x = -1, NaN below and for NaN.
Log1p(x) ==
    IF x.k # "fin" THEN NaN
    ELSE IF x.n + x.d > 0 THEN [k |-> "log1p", n |-> x.n, d |-> x.d]
    ELSE IF x.n + x.d = 0 THEN NegInf
    ELSE NaN

\* (x - mean) / std with std the square root of var: sign(x - mean) *
\* sqrt((x - mean)^2 / var); division by a zero std follows IEEE.
ZScore(x, mean, var) ==
    LET dv == Sub(x, mean)
    IN  IF dv.k # "fin" \/ var.k # "fin" THEN NaN
        ELSE IF var.n = 0
             THEN (IF dv.n > 0 THEN PosInf ELSE IF dv.n < 0 THEN NegInf ELSE NaN)
        ELSE LET q == Div(Mul(dv, dv), var)
             IN  [k |-> "sgnsqrt", n |-> (IF dv.n < 0 THEN -q.n ELSE q.n), d |-> q.d]

\* The label of a missing category.
NoLabel == "NaN"

Labels4 == <<"low", "medium", "high", "very_high">>
AgeLabels == <<"new", "modern", "old", "very_old">>

\* bins=[0, 3, 5, 7, np.inf] and bins=[0, 10, 25, 40, np.inf]
IncomeBins == <<Num(0), Num(3), Num(5), Num(7), PosInf>>
AgeBins == <<Num(0), Num(10), Num(25), Num(40), PosInf>>

\* pd.cut(x, bins, labels) for one value, right=True and include_lowest as
\* given: bin j is (bins[j], bins[j+1]], and the lowest edge itself belongs to
\* the first bin only under include_lowest.
CutValue(x, bins, labels, include_lowest) ==
    IF include_lowest /\ ~IsNull(x) /\ x = bins[1] THEN labels[1]
    ELSE IF \E j \in 1..(Len(bins) - 1) : Lt(bins[j], x) /\ Le(x, bins[j + 1])
    THEN labels[CHOOSE j \in 1..(Len(bins) - 1) : Lt(bins[j], x) /\ Le(x, bins[j + 1])]
    ELSE NoLabel

\* Mutant: pd.cut(..., right=False), bin j is [bins[j], bins[j+1]).
CutLeftClosed(s, bins, labels) ==
    [i \in DOMAIN s |->
        IF \E j \in 1..(Len(bins) - 1) : Le(bins[j], s[i]) /\ Lt(s[i], bins[j + 1])
        THEN labels[CHOOSE j \in 1..(Len(bins) - 1) :
                       Le(bins[j], s[i]) /\ Lt(s[i], bins[j + 1])]
        ELSE NoLabel]

Cut(s, bins, labels) == [i \in DOMAIN s |-> CutValue(s[i], bins, labels, FALSE)]

\* The bin edges of pd.qcut(s, q=4): the quantiles 0, 1/4, 1/2, 3/4, 1.
QcutBins(s) == [j \in 1..5 |-> Quantile(s, j - 1, 4)]

\* pd.qcut raises ValueError ("Bin edges must be unique") when two edges are
\* equal, which includes the all-NaN edges of a series with no valid value.
QcutRaises(s) ==
    LET b == QcutBins(s) IN \E i, j \in DOMAIN b : i < j /\ b[i] = b[j]

Qcut(s, labels) ==
    [i \in DOMAIN s |-> CutValue(s[i], QcutBins(s), labels, TRUE)]

\* Mutant: the rows with an invalid quotient dropped instead of filled.
RoomsPerHouseholdDropna(f) ==
    IF HasCol(f, "AveRooms") /\ HasCol(f, "AveBedrms")
    THEN LET q == ReplaceInf([i \in DOMAIN f.rows |->
                        Div(f.rows[i]["AveRooms"], f.rows[i]["AveBedrms"])])
             g == SetCol(f, "rooms_per_household", q)
         IN  FilterRows(g, {i \in DOMAIN q : ~IsNull(q[i])})
    ELSE f

\* Steps 1-4: the ratio features.
RoomsPerHousehold(f) ==
    IF HasCol(f, "AveRooms") /\ HasCol(f, "AveBedrms")
    THEN LET q == ReplaceInf([i \in DOMAIN f.rows |->
                        Div(f.rows[i]["AveRooms"], f.rows[i]["AveBedrms"])])
         IN  SetCol(f, "rooms_per_household", FillNa(q, Median(q)))
    ELSE f

PopulationDensity(f) ==
    IF HasCol(f, "Population") /\ HasCol(f, "AveOccup")
    THEN SetCol(f, "population_density", [i \in DOMAIN f.rows |->
             Div(f.rows[i]["Population"], Add(f.rows[i]["AveOccup"], Num(1)))])
    ELSE f

IncomePerCapita(f) ==
    IF HasCol(f, "MedInc") /\ HasCol(f, "AveOccup")
    THEN SetCol(f, "income_per_capita", [i \in DOMAIN f.rows |->
             Div(f.rows[i]["MedInc"], f.rows[i]["AveOccup"])])
    ELSE f

BedroomRatio(f) ==
    IF HasCol(f, "AveBedrms") /\ HasCol(f, "AveRooms")
    THEN SetCol(f, "bedroom_ratio", [i \in DOMAIN f.rows |->
             Div(f.rows[i]["AveBedrms"], Add(f.rows[i]["AveRooms"], Fin(1, 100)))])
    ELSE f

\* Step 5, when pd.qcut does not raise.
PriceCategory(f) ==
    IF HasCol(f, "MedHouseVal")
    THEN SetCol(f, "price_category", Qcut(Col(f, "MedHouseVal"), Labels4))
    ELSE f

\* Steps 6 and 7: the fixed-boundary categories.
IncomeCategory(f) ==
    IF HasCol(f, "MedInc")
    THEN SetCol(f, "income_category", Cut(Col(f, "MedInc"), IncomeBins, Labels4))
    ELSE f

HouseAgeCategory(f) ==
    IF HasCol(f, "HouseAge")
    THEN SetCol(f, "house_age_category", Cut(Col(f, "HouseAge"), AgeBins, AgeLabels))
    ELSE f

\* Step 8: one log column per present column of numeric_cols, in its order.
LogCol(f, c, name) ==
    IF HasCol(f, c)
    THEN SetCol(f, name, [i \in DOMAIN f.rows |-> Log1p(f.rows[i][c])])
    ELSE f

LogTransforms(f) ==
    LogCol(LogCol(LogCol(LogCol(f, "MedInc", "MedInc_log"),
                         "HouseAge", "HouseAge_log"),
                  "AveRooms", "AveRooms_log"),
           "Population", "Population_log")

\* Step 9
IncomeAgeInteraction(f) ==
    IF HasCol(f, "MedInc") /\ HasCol(f, "HouseAge")
    THEN SetCol(f, "income_age_interaction", [i \in DOMAIN f.rows |->
             Mul(f.rows[i]["MedInc"], f.rows[i]["HouseAge"])])
    ELSE f

\* Step 10
IncomeZscore(f) ==
    IF HasCol(f, "MedInc")
    THEN LET s == Col(f, "MedInc")
         IN  SetCol(f, "income_zscore",
                    [i \in DOMAIN s |-> ZScore(s[i], Mean(s), Variance(s))])
    ELSE f

\* The frame after steps 1-4, where pd.qcut is called.
FeaturesRatios(f) ==
    BedroomRatio(IncomePerCapita(PopulationDensity(RoomsPerHousehold(f))))

\* Mutant: the z-score step moved before the log transformations.
FeaturesRestReordenado(f) ==
    IncomeAgeInteraction(LogTransforms(IncomeZscore(
        HouseAgeCategory(IncomeCategory(PriceCategory(f))))))

\* The frame after steps 5-10.
FeaturesRest(f) ==
    IncomeZscore(IncomeAgeInteraction(LogTransforms(
        HouseAgeCategory(IncomeCategory(PriceCategory(f))))))

\* crear_features on an input file: the frame at return or at the raise, the
\* file written (none when it raises: both raises precede the write), and
\* the exception.
CrearFeaturesDatos(input) ==
    IF ~input.exists
    THEN [df |-> ReadCsv(NoFile), out |-> NoFile, wrote |-> FALSE,
          err |-> "FileNotFoundError"]
    ELSE IF input.cols = <<>>
    THEN [df |-> ReadCsv(NoFile), out |-> NoFile, wrote |-> FALSE,
          err |-> "EmptyDataError"]
    ELSE LET f4 == FeaturesRatios(ReadCsv(input))
         IN  IF HasCol(f4, "MedHouseVal") /\ QcutRaises(Col(f4, "MedHouseVal"))
             THEN [df |-> f4, out |-> NoFile, wrote |-> FALSE, err |-> "ValueError"]
             ELSE LET f == FeaturesRest(f4)
                  IN  [df |-> f, out |-> ToCsv(f), wrote |-> TRUE, err |-> "none"]

(***************************************************************************)
(* Inputs: the raw files the runs start from.                              *)
(***************************************************************************)
MaxRowsPrecio == 5
MaxRowsRango == 2
MaxRowsAncho == 1
MaxRowsCorte == 2
MaxRowsCuartos == 3

RECURSIVE SubSeqs(_)
\* The subsequences of s (columns present, in the order of s).
SubSeqs(s) ==
    IF s = <<>> THEN {<<>>}
    ELSE LET rest == SubSeqs(Tail(s))
         IN  rest \cup {<<Head(s)>> \o r : r \in rest}

RECURSIVE RowsOver(_, _)
\* The rows over the columns cs with each value of column c drawn from D[c].
RowsOver(cs, D) ==
    IF cs = <<>> THEN {<<>>}
    ELSE {(Head(cs) :> v) @@ r : v \in D[Head(cs)], r \in RowsOver(Tail(cs), D)}

\* The files with header cs and at most n rows; without a header line the
\* file is empty.
Tables(cs, D, n) ==
    {[exists |-> TRUE, cols |-> cs, rows |-> rs] :
        rs \in UNION {[1..m -> RowsOver(cs, D)] :
                        m \in 0..(IF cs = <<>> THEN 0 ELSE n)}}

Nums(S) == {Num(i) : i \in S}

\* Prices alone, all different: enough rows for the IQR rule and the quartile
\* bins to act (equal rows are drawn in the other tables).
TablasPrecio ==
    {t \in Tables(<<"MedHouseVal">>,
                  [c \in {"MedHouseVal"} |-> Nums({0, 1, 2, 8, 19, 50})],
                  MaxRowsPrecio) :
        \A i, j \in DOMAIN t.rows : i < j => t.rows[i] # t.rows[j]}

\* The columns the Cleaner reads, with missing and non-positive values.
TablasRango ==
    LET D == [c \in {"AveRooms", "Population", "MedHouseVal"} |->
                CASE c = "AveRooms" -> Nums({0, 1}) \cup {NaN}
                  [] c = "Population" -> Nums({-1, 2}) \cup {NaN}
                  [] OTHER -> Nums({1}) \cup {NaN}]
    IN  UNION {Tables(cs, D, MaxRowsRango) :
                 cs \in SubSeqs(<<"AveRooms", "Population", "MedHouseVal">>)}

SourceCols ==
    <<"MedInc", "HouseAge", "AveRooms", "AveBedrms", "Population", "AveOccup",
      "MedHouseVal">>

\* Every subset of the source columns of the features, beside a column the
\* stages do not read.
TablasAncho ==
    LET D == [c \in Range(SourceCols) \cup {"Latitude"} |->
                CASE c = "MedInc" -> Nums({4})
                  [] c = "HouseAge" -> Nums({15})
                  [] c = "AveRooms" -> Nums({2})
                  [] c = "AveBedrms" -> Nums({0, 1})
                  [] c = "Population" -> Nums({3})
                  [] c = "AveOccup" -> Nums({0, 1})
                  [] OTHER -> Nums({1})]
    IN  UNION {Tables(cs \o <<"Latitude">>, D, MaxRowsAncho) :
                 cs \in SubSeqs(SourceCols)}

\* Income or house age alone, on and around the category boundaries.
TablasCorte ==
    Tables(<<"MedInc">>,
           [c \in {"MedInc"} |-> Nums({-1, 0, 2, 3, 4, 5, 6, 7, 8}) \cup {NaN}],
           MaxRowsCorte)
    \cup
    Tables(<<"HouseAge">>,
           [c \in {"HouseAge"} |-> Nums({-1, 0, 5, 10, 20, 25, 30, 40, 50}) \cup {NaN}],
           MaxRowsCorte)

\* Rooms and bedrooms, with zero and missing bedrooms.
TablasCuartos ==
    Tables(<<"AveRooms", "AveBedrms">>,
           [c \in {"AveRooms", "AveBedrms"} |->
               IF c = "AveRooms" THEN Nums({1, 2}) ELSE Nums({0, 1, 2}) \cup {NaN}],
           MaxRowsCuartos)

RawFiles ==
    {NoFile} \cup TablasPrecio \cup TablasRango \cup TablasAncho \cup TablasCorte
        \cup TablasCuartos

Stages == {"limpiar", "relimpiar", "features"}

NoFrame == ReadCsv(NoFile)
NotRun == [done |-> FALSE, rc |-> 0, err |-> "none"]
Ran(e) == [done |-> TRUE, rc |-> ExitCode(e), err |-> e]

\* A file left in data/processed by an earlier run.
Viejo ==
    [exists |-> TRUE, cols |-> <<"data_quality_score">>,
     rows |-> <<[c \in {"data_quality_score"} |-> Num(1)]>>]

\* The orchestrator when it is not running.
OrqIdle ==
    [pc |-> "idle", i |-> 0, corriendo |-> {}, scripts |-> {}, hist |-> <<>>,
     avisos |-> {}, exito |-> FALSE, exit |-> 0]

\* No stage has run.  With the raw file missing, data/processed may still
\* hold the outputs of an earlier run.
Init ==
    /\ rawFile \in RawFiles
    /\ IF rawFile.exists
       THEN cleanFile = NoFile /\ featFile = NoFile
       ELSE cleanFile \in {NoFile, Viejo} /\ featFile \in {NoFile, Viejo}
    /\ clean2File = NoFile
    /\ df = [s \in Stages |-> NoFrame]
    /\ args = [remove_outliers |-> TRUE]
    /\ run = [s \in Stages |-> NotRun]
    /\ orq = OrqIdle

\* python scripts/02_limpiar_datos.py [--no-remove-outliers]
Limpiar ==
    /\ orq.pc = "idle"
    /\ ~run["limpiar"].done
    /\ \E ro \in BOOLEAN :
         LET res == LimpiarDatos(rawFile, ro)
         IN  /\ args' = [remove_outliers |-> ro]
             /\ cleanFile' = IF res.wrote THEN res.out ELSE cleanFile
             /\ df' = [df EXCEPT !["limpiar"] = res.df]
             /\ run' = [run EXCEPT !["limpiar"] = Ran(res.err)]
    /\ UNCHANGED <<rawFile, clean2File, featFile, orq>>

\* The Cleaner run again, with the same arguments, on the file it wrote.
Relimpiar ==
    /\ orq.pc = "idle"
    /\ run["limpiar"].done
    /\ ~run["relimpiar"].done
    /\ LET res == LimpiarDatos(cleanFile, args.remove_outliers)
       IN  /\ clean2File' = IF res.wrote THEN res.out ELSE clean2File
           /\ df' = [df EXCEPT !["relimpiar"] = res.df]
           /\ run' = [run EXCEPT !["relimpiar"] = Ran(res.err)]
    /\ UNCHANGED <<rawFile, cleanFile, featFile, args, orq>>

\* python scripts/03_crear_features.py, after the Cleaner has run.
CrearFeatures ==
    /\ orq.pc = "idle"
    /\ run["limpiar"].done
    /\ ~run["features"].done
    /\ LET res == CrearFeaturesDatos(cleanFile)
       IN  /\ featFile' = IF res.wrote THEN res.out ELSE featFile
           /\ df' = [df EXCEPT !["features"] = res.df]
           /\ run' = [run EXCEPT !["features"] = Ran(res.err)]
    /\ UNCHANGED <<rawFile, cleanFile, clean2File, args, orq>>

Next == Limpiar \/ Relimpiar \/ CrearFeatures

Spec == Init /\ [][Next]_vars

\* The five-row raw files over a population and a price column.
TablasEscenario ==
    {[exists |-> TRUE, cols |-> <<"Population", "MedHouseVal">>, rows |-> rs] :
        rs \in [1..5 -> RowsOver(<<"Population", "MedHouseVal">>,
                                 [c \in {"Population", "MedHouseVal"} |->
                                     IF c = "Population" THEN Nums({-1, 2})
                                     ELSE Nums({1, 2, 50})])]}

\* The Cleaner alone, run once on a five-row raw file.
InitEscenario ==
    /\ rawFile \in TablasEscenario
    /\ cleanFile = NoFile
    /\ clean2File = NoFile
    /\ featFile = NoFile
    /\ df = [s \in Stages |-> NoFrame]
    /\ args = [remove_outliers |-> TRUE]
    /\ run = [s \in Stages |-> NotRun]
    /\ orq = OrqIdle

NextEscenario == Limpiar

SpecEscenario == InitEscenario /\ [][NextEscenario]_vars

\* ---------------------------------------------------------------------------
\* The orchestrator run_pipeline.py.

\* Mutant: the cleaning and the feature steps in the other order.
StepsDesordenados ==
    <<[name |-> "extraccion", script |-> "scripts/01_extraer_datos.py", required |-> TRUE],
      [name |-> "features", script |-> "scripts/03_crear_features.py", required |-> TRUE],
      [name |-> "limpieza", script |-> "scripts/02_limpiar_datos.py", required |-> TRUE],
      [name |-> "reporte_txt", script |-> "scripts/04_generar_reporte.py", required |-> TRUE],
      [name |-> "reporte_json", script |-> "scripts/04_generar_reporte.py", required |-> FALSE]>>

\* main: the list steps.
Steps ==
    <<[name |-> "extraccion", script |-> "scripts/01_extraer_datos.py", required |-> TRUE],
      [name |-> "limpieza", script |-> "scripts/02_limpiar_datos.py", required |-> TRUE],
      [name |-> "features", script |-> "scripts/03_crear_features.py", required |-> TRUE],
      [name |-> "reporte_txt", script |-> "scripts/04_generar_reporte.py", required |-> TRUE],
      [name |-> "reporte_json", script |-> "scripts/04_generar_reporte.py", required |-> FALSE]>>

\* The scripts found under scripts/: the repository keeps 03_crear_features.py
\* beside run_pipeline.py, a working copy may hold it under scripts/ as the
\* step list expects.
Layouts ==
    {{"scripts/01_extraer_datos.py", "scripts/02_limpiar_datos.py",
      "scripts/04_generar_reporte.py"},
     {"scripts/01_extraer_datos.py", "scripts/02_limpiar_datos.py",
      "scripts/03_crear_features.py", "scripts/04_generar_reporte.py"}}

\* os.system on POSIX: the wait status of the child, its exit code in the
\* high byte.
OsSystem(rc) == rc * 256

\* python <script>: exit code 2 when the script file cannot be opened.
PythonRc(o, script, rc) == IF script \in o.scripts THEN rc ELSE 2

\* Mutant: a failing required step is reported like an optional one.
RunStepSinParada(o, exit_code) ==
    LET step == Steps[o.i]
        o1 == [o EXCEPT !.corriendo = @ \ {step.name},
                        !.hist = Append(@, [ev |-> "fin", paso |-> step.name,
                                            code |-> exit_code])]
    IN  IF exit_code # 0
        THEN [o1 EXCEPT !.avisos = @ \cup {step.name}, !.pc = "loop", !.i = @ + 1]
        ELSE [o1 EXCEPT !.pc = "loop", !.i = @ + 1]

\* Mutant: every failing step stops the pipeline.
RunStepTodoRequerido(o, exit_code) ==
    LET step == Steps[o.i]
        o1 == [o EXCEPT !.corriendo = @ \ {step.name},
                        !.hist = Append(@, [ev |-> "fin", paso |-> step.name,
                                            code |-> exit_code])]
    IN  IF exit_code # 0
        THEN [o1 EXCEPT !.pc = "halted", !.exit = 1]
        ELSE [o1 EXCEPT !.pc = "loop", !.i = @ + 1]

\* run_step after os.system has returned exit_code: sys.exit(1) for a failing
\* required step, a warning for a failing optional one, and back to the loop
\* of main otherwise.
RunStep(o, exit_code) ==
    LET step == Steps[o.i]
        o1 == [o EXCEPT !.corriendo = @ \ {step.name},
                        !.hist = Append(@, [ev |-> "fin", paso |-> step.name,
                                            code |-> exit_code])]
    IN  IF exit_code # 0
        THEN IF step.required
             THEN [o1 EXCEPT !.pc = "halted", !.exit = 1]
             ELSE [o1 EXCEPT !.avisos = @ \cup {step.name}, !.pc = "loop", !.i = @ + 1]
        ELSE [o1 EXCEPT !.pc = "loop", !.i = @ + 1]

\* The frames 01_extraer_datos.py may write as raw_data_<year>.csv.
Extraidos == TablasRango \cup TablasCuartos

\* python run_pipeline.py has been started and no step has run.
InitPipeline ==
    /\ rawFile = NoFile
    /\ cleanFile \in {NoFile, Viejo}
    /\ featFile \in {NoFile, Viejo}
    /\ clean2File = NoFile
    /\ df = [s \in Stages |-> NoFrame]
    /\ args = [remove_outliers |-> TRUE]
    /\ run = [s \in Stages |-> NotRun]
    /\ \E l \in Layouts : orq = [OrqIdle EXCEPT !.pc = "main", !.scripts = l]

\* main up to the loop: the directories and the step list.
Arrancar ==
    /\ orq.pc = "main"
    /\ orq' = [orq EXCEPT !.pc = "loop", !.i = 1]
    /\ UNCHANGED <<rawFile, cleanFile, clean2File, featFile, df, args, run>>

\* run_step up to os.system: the child process of the next step starts.
Lanzar ==
    /\ orq.pc = "loop"
    /\ orq.i <= Len(Steps)
    /\ orq' = [orq EXCEPT !.pc = "child",
                          !.corriendo = @ \cup {Steps[orq.i].name},
                          !.hist = Append(@, [ev |-> "inicio", paso |-> Steps[orq.i].name,
                                              code |-> 0])]
    /\ UNCHANGED <<rawFile, cleanFile, clean2File, featFile, df, args, run>>

\* The child of step 1 ends: the raw file written and exit code 0, or an
\* exception before the write and exit code 1.
TerminaExtraccion ==
    /\ orq.pc = "child"
    /\ Steps[orq.i].name = "extraccion"
    /\ IF Steps[orq.i].script \in orq.scripts
       THEN \/ /\ rawFile' \in Extraidos
               /\ orq' = RunStep(orq, OsSystem(0))
            \/ /\ rawFile' = rawFile
               /\ orq' = RunStep(orq, OsSystem(1))
       ELSE /\ rawFile' = rawFile
            /\ orq' = RunStep(orq, OsSystem(PythonRc(orq, Steps[orq.i].script, 0)))
    /\ UNCHANGED <<cleanFile, clean2File, featFile, df, args, run>>

\* The child of step 2 ends: 02_limpiar_datos.py --year 2024 -v.
TerminaLimpieza ==
    /\ orq.pc = "child"
    /\ Steps[orq.i].name = "limpieza"
    /\ IF Steps[orq.i].script \in orq.scripts
       THEN LET res == LimpiarDatos(rawFile, TRUE)
            IN  /\ args' = [remove_outliers |-> TRUE]
                /\ cleanFile' = IF res.wrote THEN res.out ELSE cleanFile
                /\ df' = [df EXCEPT !["limpiar"] = res.df]
                /\ run' = [run EXCEPT !["limpiar"] = Ran(res.err)]
                /\ orq' = RunStep(orq, OsSystem(ExitCode(res.err)))
       ELSE /\ UNCHANGED <<args, cleanFile, df, run>>
            /\ orq' = RunStep(orq, OsSystem(PythonRc(orq, Steps[orq.i].script, 0)))
    /\ UNCHANGED <<rawFile, clean2File, featFile>>

\* The child of step 3 ends: 03_crear_features.py --year 2024 -v, when the
\* script is where the step list says.
TerminaFeatures ==
    /\ orq.pc = "child"
    /\ Steps[orq.i].name = "features"
    /\ IF Steps[orq.i].script \in orq.scripts
       THEN LET res == CrearFeaturesDatos(cleanFile)
            IN  /\ featFile' = IF res.wrote THEN res.out ELSE featFile
                /\ df' = [df EXCEPT !["features"] = res.df]
                /\ run' = [run EXCEPT !["features"] = Ran(res.err)]
                /\ orq' = RunStep(orq, OsSystem(ExitCode(res.err)))
       ELSE /\ UNCHANGED <<featFile, df, run>>
            /\ orq' = RunStep(orq, OsSystem(PythonRc(orq, Steps[orq.i].script, 0)))
    /\ UNCHANGED <<rawFile, cleanFile, clean2File, args>>

\* The child of step 4 or 5 ends: 04_generar_reporte.py exits 1 without the
\* features file or with one that has no rows (the share of complete rows
\* divides by their number), and else 0, or 1 when the report cannot be
\* serialised or written.
TerminaReporte ==
    /\ orq.pc = "child"
    /\ Steps[orq.i].name \in {"reporte_txt", "reporte_json"}
    /\ \E rc \in {0, 1} :
         /\ (~featFile.exists \/ Len(featFile.rows) = 0) => rc = 1
         /\ orq' = RunStep(orq, OsSystem(PythonRc(orq, Steps[orq.i].script, rc)))
    /\ UNCHANGED <<rawFile, cleanFile, clean2File, featFile, df, args, run>>

\* main after the loop: the summary and return 0.
Finalizar ==
    /\ orq.pc = "loop"
    /\ orq.i > Len(Steps)
    /\ orq' = [orq EXCEPT !.pc = "done", !.exito = TRUE, !.exit = 0]
    /\ UNCHANGED <<rawFile, cleanFile, clean2File, featFile, df, args, run>>

NextPipeline ==
    \/ Arrancar
    \/ Lanzar
    \/ TerminaExtraccion
    \/ TerminaLimpieza
    \/ TerminaFeatures
    \/ TerminaReporte
    \/ Finalizar

SpecPipeline == InitPipeline /\ [][NextPipeline]_vars

(***************************************************************************)
(* Properties of the Cleaner.                                              *)
(***************************************************************************)
\* The Cleaner has run and written clean_data_<year>.csv.
Limpio ==
    /\ run["limpiar"].done
    /\ run["limpiar"].err \in {"none", "ZeroDivisionError"}

\* The Cleaner has also run on that file and written its output.
Relimpio == Limpio /\ run["relimpiar"].done /\ clean2File.exists

\* The IQR limits of a price series, as the specification states them:
\* [Q1 - 1.5*IQR, Q3 + 1.5*IQR].
Limites(s) ==
    LET q1 == Quantile(s, 1, 4)
        q3 == Quantile(s, 3, 4)
        iqr == Sub(q3, q1)
    IN  [lo |-> Sub(q1, Mul(Fin(3, 2), iqr)), hi |-> Add(q3, Mul(Fin(3, 2), iqr))]

FueraDeLimites(x, lim) == Lt(x, lim.lo) \/ Gt(x, lim.hi)

\* The raw frame after null-column pruning and deduplication, on which the
\* IQR limits of the first pass are computed.
PostDedup == LET f0 == ReadCsv(rawFile)
             IN  DropDuplicates(DropCols(f0, ColumnasNulas(f0)))

\* The columns of a file without a single non-null entry.
SinValor(file) ==
    {c \in Range(file.cols) : \A i \in DOMAIN file.rows : IsNull(file.rows[i][c])}

C2_PrecioEnLimites ==
    (Limpio /\ args.remove_outliers /\ HasCol(cleanFile, "MedHouseVal")) =>
        LET lim == Limites(Col(PostDedup, "MedHouseVal"))
        IN  \A i \in DOMAIN cleanFile.rows :
              LET v == cleanFile.rows[i]["MedHouseVal"]
              IN  Le(lim.lo, v) /\ Le(v, lim.hi)

\* C2 (amended): after cleaning with outlier removal, every surviving row
\* whose price is present has it within the limits of the post-dedup data; a
\* row whose price is missing is never removed as an outlier.
C2_PrecioPresenteEnLimites ==
    (Limpio /\ args.remove_outliers /\ HasCol(cleanFile, "MedHouseVal")) =>
        LET lim == Limites(Col(PostDedup, "MedHouseVal"))
            sano(r) == \A c \in {"AveRooms", "Population"} :
                          HasCol(PostDedup, c) => Gt(r[c], Num(0))
        IN  /\ \A i \in DOMAIN cleanFile.rows :
                 LET v == cleanFile.rows[i]["MedHouseVal"]
                 IN  IsNull(v) \/ (Le(lim.lo, v) /\ Le(v, lim.hi))
            /\ \A j \in DOMAIN PostDedup.rows :
                 (IsNull(PostDedup.rows[j]["MedHouseVal"]) /\ sano(PostDedup.rows[j]))
                    => PostDedup.idx[j] \in Range(df["limpiar"].idx)

\* C2 witness: a pass that removed a price outlier and kept other rows.
C2_Witness ==
    /\ Limpio /\ args.remove_outliers /\ HasCol(cleanFile, "MedHouseVal")
    /\ Len(cleanFile.rows) > 0
    /\ \E j \in DOMAIN PostDedup.rows :
         FueraDeLimites(PostDedup.rows[j]["MedHouseVal"],
                        Limites(Col(PostDedup, "MedHouseVal")))

\* C3 (as claimed): every column of the Cleaner's output holds a non-null
\* entry among the surviving rows (stated for outputs that have rows).
C3_SinColumnasNulas ==
    (Limpio /\ Len(cleanFile.rows) > 0) => SinValor(cleanFile) = {}

NoPositivo(x) == IsNull(x) \/ x.k = "ninf" \/ (x.k = "fin" /\ x.n <= 0)

\* C5: in the output every rooms value and every population value is > 0
\* when the column exists; every row with a zero, negative or missing value in
\* an existing one of them is dropped; and a row is dropped only as a
\* duplicate, as a price outlier or for such a value in an existing column.
C5_RangosPositivos ==
    Limpio =>
        LET rango == {c \in {"AveRooms", "Population"} : HasCol(cleanFile, c)}
            malo(r) == \E c \in rango : NoPositivo(r[c])
            out == IF args.remove_outliers /\ HasCol(PostDedup, "MedHouseVal")
                   THEN {j \in DOMAIN PostDedup.rows :
                           FueraDeLimites(PostDedup.rows[j]["MedHouseVal"],
                                          Limites(Col(PostDedup, "MedHouseVal")))}
                   ELSE {}
        IN  /\ \A i \in DOMAIN cleanFile.rows : \A c \in rango :
                 LET v == cleanFile.rows[i][c] IN v.k = "fin" /\ v.n > 0
            /\ \A j \in DOMAIN PostDedup.rows :
                 PostDedup.idx[j] \in Range(df["limpiar"].idx)
                    <=> (j \notin out /\ ~malo(PostDedup.rows[j]))

\* C5 witness: a row was dropped for its range and another one survived.
C5_Witness ==
    /\ Limpio
    /\ Len(cleanFile.rows) > 0
    /\ \E c \in {"AveRooms", "Population"} :
         /\ HasCol(cleanFile, c)
         /\ \E j \in DOMAIN PostDedup.rows :
              /\ NoPositivo(PostDedup.rows[j][c])
              /\ PostDedup.idx[j] \notin Range(df["limpiar"].idx)

(***************************************************************************)
(* Properties of the Feature Deriver.                                      *)
(***************************************************************************)
\* crear_features has run on the Cleaner's output and completed.
FeaturesOk == Limpio /\ run["features"].done /\ run["features"].err = "none"

DerivedNumeric ==
    {"rooms_per_household", "population_density", "income_per_capita",
     "bedroom_ratio", "MedInc_log", "HouseAge_log", "AveRooms_log",
     "Population_log", "income_age_interaction", "income_zscore"}

DerivedOrder ==
    <<"rooms_per_household", "population_density", "income_per_capita",
      "bedroom_ratio", "price_category", "income_category", "house_age_category",
      "MedInc_log", "HouseAge_log", "AveRooms_log", "Population_log",
      "income_age_interaction", "income_zscore">>

\* Every source value of the file is present and not negative.
SinNegativos(file) ==
    \A i \in DOMAIN file.rows : \A c \in Range(file.cols) :
        file.rows[i][c].k = "fin" /\ file.rows[i][c].n >= 0

\* C6 (as claimed): every value of every derived numeric column is finite
\* (stated for the inputs whose values are all present and not negative).
C6_DerivadasFinitas ==
    (FeaturesOk /\ SinNegativos(cleanFile)) =>
        \A i \in DOMAIN featFile.rows :
            \A c \in DerivedNumeric \cap Range(featFile.cols) :
                IsFinite(featFile.rows[i][c])

\* C7: when crear_features completes, its output has as many rows as its
\* input.
C7_MismasFilas ==
    FeaturesOk => Len(featFile.rows) = Len(cleanFile.rows)

\* C7 witness: a completed run over several rows.
C7_Witness == FeaturesOk /\ Len(cleanFile.rows) >= 2

\* C8: the output starts with the input's columns, in the input's order and
\* with the input's values in every row, and the columns after them are
\* derived columns in the fixed order of the thirteen names.
C8_ColumnasOriginales ==
    FeaturesOk =>
        LET n == Len(cleanFile.cols)
            nuevas == Range(featFile.cols) \ Range(cleanFile.cols)
        IN  /\ Len(featFile.cols) >= n
            /\ SubSeq(featFile.cols, 1, n) = cleanFile.cols
            /\ SubSeq(featFile.cols, n + 1, Len(featFile.cols)) =
                 SelectSeq(DerivedOrder, LAMBDA c : c \in nuevas)
            /\ DOMAIN featFile.rows = DOMAIN cleanFile.rows
            /\ \A i \in DOMAIN featFile.rows : \A c \in Range(cleanFile.cols) :
                 featFile.rows[i][c] = cleanFile.rows[i][c]

\* C8 witness: a completed run that appended columns of several steps to rows.
C8_Witness ==
    /\ FeaturesOk
    /\ Len(featFile.rows) > 0
    /\ Len(featFile.cols) >= Len(cleanFile.cols) + 5

\* The label of x in the bins with the given lower edges (the last bin has no
\* upper edge), each bin closed on the left and open on the right.
EtiquetaIzquierda(x, edges, labels) ==
    IF \E j \in DOMAIN edges :
          Le(edges[j], x) /\ (j = Len(edges) \/ Lt(x, edges[j + 1]))
    THEN labels[CHOOSE j \in DOMAIN edges :
                   Le(edges[j], x) /\ (j = Len(edges) \/ Lt(x, edges[j + 1]))]
    ELSE NoLabel

\* The same with each bin open on the left and closed on the right.
EtiquetaDerecha(x, edges, labels) ==
    IF \E j \in DOMAIN edges :
          Lt(edges[j], x) /\ (j = Len(edges) \/ Le(x, edges[j + 1]))
    THEN labels[CHOOSE j \in DOMAIN edges :
                   Lt(edges[j], x) /\ (j = Len(edges) \/ Le(x, edges[j + 1]))]
    ELSE NoLabel

IncomeEdges == <<Num(0), Num(3), Num(5), Num(7)>>
AgeEdges == <<Num(0), Num(10), Num(25), Num(40)>>

\* C9 (as claimed): income_category is low on [0,3), medium on [3,5), high on
\* [5,7), very_high from 7 on; house_age_category is new on [0,10), modern on
\* [10,25), old on [25,40), very_old from 40 on.
C9_CerradoIzquierda ==
    FeaturesOk =>
        \A i \in DOMAIN featFile.rows :
            /\ (HasCol(cleanFile, "MedInc") /\ Le(Num(0), cleanFile.rows[i]["MedInc"])) =>
                 featFile.rows[i]["income_category"] =
                    EtiquetaIzquierda(cleanFile.rows[i]["MedInc"], IncomeEdges,
                                      <<"low", "medium", "high", "very_high">>)
            /\ (HasCol(cleanFile, "HouseAge") /\ Le(Num(0), cleanFile.rows[i]["HouseAge"])) =>
                 featFile.rows[i]["house_age_category"] =
                    EtiquetaIzquierda(cleanFile.rows[i]["HouseAge"], AgeEdges,
                                      <<"new", "modern", "old", "very_old">>)

\* C9 (amended): the bins are open on the left and closed on the right:
\* income_category is low on (0,3], medium on (3,5], high on (5,7], very_high
\* above 7; house_age_category is new on (0,10], modern on (10,25], old on
\* (25,40], very_old above 40; a value on a boundary gets the label of the bin
\* that ends there, and a value that is 0, negative or missing gets no label.
C9_CerradoDerecha ==
    FeaturesOk =>
        \A i \in DOMAIN featFile.rows :
            /\ HasCol(cleanFile, "MedInc") =>
                 featFile.rows[i]["income_category"] =
                    EtiquetaDerecha(cleanFile.rows[i]["MedInc"], IncomeEdges,
                                    <<"low", "medium", "high", "very_high">>)
            /\ HasCol(cleanFile, "HouseAge") =>
                 featFile.rows[i]["house_age_category"] =
                    EtiquetaDerecha(cleanFile.rows[i]["HouseAge"], AgeEdges,
                                    <<"new", "modern", "old", "very_old">>)

\* C9 witness: a completed run with an income exactly on the boundary 3 and
\* one with a house age exactly on the boundary 0.
C9_Witness ==
    /\ FeaturesOk
    /\ \E i \in DOMAIN featFile.rows :
         \/ HasCol(cleanFile, "MedInc") /\ cleanFile.rows[i]["MedInc"] = Num(3)
              /\ featFile.rows[i]["income_category"] = "low"
         \/ HasCol(cleanFile, "HouseAge") /\ cleanFile.rows[i]["HouseAge"] = Num(0)
              /\ featFile.rows[i]["house_age_category"] = NoLabel

\* C10 (as claimed): when the input has the price column, crear_features
\* completes and price_category gives every row one of the four labels, a
\* higher price never a lower label.
C10_CategoriaPrecio ==
    (Limpio /\ run["features"].done /\ HasCol(cleanFile, "MedHouseVal")) =>
        LET rango == [l \in {"low", "medium", "high", "very_high"} |->
                        CASE l = "low" -> 1 [] l = "medium" -> 2
                          [] l = "high" -> 3 [] OTHER -> 4]
        IN  /\ run["features"].err = "none"
            /\ HasCol(featFile, "price_category")
            /\ \A i \in DOMAIN featFile.rows :
                 featFile.rows[i]["price_category"] \in DOMAIN rango
            /\ \A i, j \in DOMAIN featFile.rows :
                 Lt(featFile.rows[i]["MedHouseVal"], featFile.rows[j]["MedHouseVal"])
                    => rango[featFile.rows[i]["price_category"]]
                          <= rango[featFile.rows[j]["price_category"]]

\* The source columns each derived column is computed from.
Fuentes ==
    [d \in Range(DerivedOrder) |->
        CASE d = "rooms_per_household" -> {"AveRooms", "AveBedrms"}
          [] d = "population_density" -> {"Population", "AveOccup"}
          [] d = "income_per_capita" -> {"MedInc", "AveOccup"}
          [] d = "bedroom_ratio" -> {"AveBedrms", "AveRooms"}
          [] d = "price_category" -> {"MedHouseVal"}
          [] d = "income_category" -> {"MedInc"}
          [] d = "house_age_category" -> {"HouseAge"}
          [] d = "MedInc_log" -> {"MedInc"}
          [] d = "HouseAge_log" -> {"HouseAge"}
          [] d = "AveRooms_log" -> {"AveRooms"}
          [] d = "Population_log" -> {"Population"}
          [] d = "income_age_interaction" -> {"MedInc", "HouseAge"}
          [] OTHER -> {"MedInc"}]

\* C11 (as claimed): whatever source columns the clean file lacks,
\* crear_features raises no error and its output holds a derived column
\* exactly when all of that column's sources are in the input.
C11_DerivadasSegunFuentes ==
    (Limpio /\ run["features"].done) =>
        /\ run["features"].err = "none"
        /\ \A d \in Range(DerivedOrder) :
             HasCol(featFile, d) <=> Fuentes[d] \subseteq Range(cleanFile.cols)

\* C12: a Cleaner run without the raw file, and a Feature Deriver run without
\* the clean file, end with FileNotFoundError and exit code 1, and the step
\* creates or modifies no file.
C12_FaltaEntrada ==
    [][/\ (~run["limpiar"].done /\ run'["limpiar"].done /\ ~rawFile.exists) =>
            /\ run'["limpiar"].err = "FileNotFoundError"
            /\ run'["limpiar"].rc = 1
            /\ UNCHANGED <<rawFile, cleanFile, clean2File, featFile>>
       /\ (~run["features"].done /\ run'["features"].done /\ ~cleanFile.exists) =>
            /\ run'["features"].err = "FileNotFoundError"
            /\ run'["features"].rc = 1
            /\ UNCHANGED <<rawFile, cleanFile, clean2File, featFile>>]_vars

\* C12 witness: both stages have run without their input and failed, and the
\* features file of an earlier run is still in place.
C12_Witness ==
    /\ ~rawFile.exists /\ ~cleanFile.exists
    /\ run["limpiar"].done /\ run["limpiar"].err = "FileNotFoundError"
    /\ run["features"].done /\ run["features"].err = "FileNotFoundError"
    /\ run["features"].rc = 1
    /\ featFile = Viejo

\* C18 (as claimed): the Cleaner fails only when its input file is missing:
\* on every raw file that loads, one without rows included, it writes the
\* clean file and the stage exits 0.
C18_SoloFallaSinEntrada ==
    (run["limpiar"].done /\ rawFile.exists /\ rawFile.cols # <<>>) =>
        /\ cleanFile.exists
        /\ run["limpiar"].err = "none"
        /\ run["limpiar"].rc = 0

\* The quotient rooms / bedrooms of every row of the clean file.
Cocientes ==
    [i \in DOMAIN cleanFile.rows |->
        Div(cleanFile.rows[i]["AveRooms"], cleanFile.rows[i]["AveBedrms"])]

\* The median of the quotients that are defined and finite.
MedianaValidos ==
    Median([i \in DOMAIN Cocientes |->
               IF IsFinite(Cocientes[i]) THEN Cocientes[i] ELSE NaN])

\* C16: rooms_per_household is rooms / bedrooms in every row where the
\* quotient is defined and finite, and the median of the defined and finite
\* quotients in every other row (undefined when no row has one).
C16_CuartosPorHogar ==
    (FeaturesOk /\ HasCol(cleanFile, "AveRooms") /\ HasCol(cleanFile, "AveBedrms")) =>
        \A i \in DOMAIN featFile.rows :
            featFile.rows[i]["rooms_per_household"] =
                IF IsFinite(Cocientes[i]) THEN Cocientes[i] ELSE MedianaValidos

\* C16 witness: a completed run with a row without bedrooms that holds the
\* median of the two different valid quotients of the other rows.
C16_Witness ==
    /\ FeaturesOk /\ HasCol(cleanFile, "AveRooms") /\ HasCol(cleanFile, "AveBedrms")
    /\ \E i, j \in DOMAIN featFile.rows :
         /\ IsFinite(Cocientes[i]) /\ IsFinite(Cocientes[j])
         /\ Cocientes[i] # Cocientes[j]
    /\ \E i \in DOMAIN featFile.rows :
         /\ cleanFile.rows[i]["AveBedrms"] = Num(0)
         /\ featFile.rows[i]["rooms_per_household"] = MedianaValidos
         /\ IsFinite(MedianaValidos)

\* The scenario of C15: five rows, exactly two of them identical, one other
\* row with Population = -1, one other row with a price outside the IQR
\* limits, and every remaining value in range.
Escenario ==
    LET r == rawFile.rows
        lim == Limites(Col(PostDedup, "MedHouseVal"))
    IN  /\ rawFile.exists /\ Len(r) = 5
        /\ rawFile.cols = <<"Population", "MedHouseVal">>
        /\ \E a, b, c, d \in 1..5 :
             /\ a < b /\ c \notin {a, b} /\ d \notin {a, b, c}
             /\ r[a] = r[b]
             /\ \A i, j \in 1..5 : (i < j /\ r[i] = r[j]) => (i = a /\ j = b)
             /\ r[c]["Population"] = Num(-1)
             /\ \A i \in 1..5 \ {c} : Gt(r[i]["Population"], Num(0))
             /\ FueraDeLimites(r[d]["MedHouseVal"], lim)
             /\ \A i \in 1..5 \ {d} : ~FueraDeLimites(r[i]["MedHouseVal"], lim)

\* The Cleaner has run on the scenario with outlier removal on.
EscenarioLimpio == Escenario /\ run["limpiar"].done /\ args.remove_outliers

\* C15 (as claimed): in the scenario the Cleaner's output has exactly 3 rows.
C15_TresFilas == EscenarioLimpio => Len(cleanFile.rows) = 3

\* C15 (amended): in the scenario the Cleaner removes three of the five rows,
\* one per rule, and its output has exactly 2 rows.
C15_DosFilas ==
    EscenarioLimpio =>
        /\ run["limpiar"].err = "none"
        /\ Len(PostDedup.rows) = 4
        /\ Len(cleanFile.rows) = 2

\* C15 witness: the Cleaner has run on a raw file of the scenario.
C15_Witness == EscenarioLimpio /\ cleanFile.exists /\ Len(rawFile.rows) = 5

\* The steps the orchestrator has seen end, with what os.system returned.
Fines == {k \in DOMAIN orq.hist : orq.hist[k].ev = "fin"}

\* The fixed order of the stages and the required ones among them.
Orden == <<"extraccion", "limpieza", "features", "reporte_txt", "reporte_json">>

Requeridos == {"extraccion", "limpieza", "features", "reporte_txt"}

\* C13: once a required step has ended with a non-zero exit code, it is the
\* last step the orchestrator executed, the completed-successfully summary
\* is not printed and the orchestrator has terminated with exit code 1.
C13_RequeridoDetiene ==
    \A k \in Fines :
        (orq.hist[k].paso \in Requeridos /\ orq.hist[k].code # 0) =>
            /\ k = Len(orq.hist)
            /\ orq.corriendo = {}
            /\ ~orq.exito
            /\ orq.pc = "halted"
            /\ orq.exit = 1

\* C13 witness: the cleaning step has failed after a successful extraction
\* and the pipeline has stopped there.
C13_Witness ==
    /\ orq.pc = "halted"
    /\ Len(orq.hist) = 4
    /\ orq.hist[2].code = 0
    /\ orq.hist[4].paso = "limpieza" /\ orq.hist[4].code # 0
    /\ run["limpiar"].rc = 1

\* C14: once the optional JSON report step has ended with a non-zero exit
\* code, the warning is printed, the pipeline is not halted, the step list
\* is at its end, and main, when it has returned, has printed the summary
\* and returned 0.
C14_OpcionalAvisa ==
    \A k \in Fines :
        (orq.hist[k].paso = "reporte_json" /\ orq.hist[k].code # 0) =>
            /\ "reporte_json" \in orq.avisos
            /\ orq.pc \in {"loop", "done"}
            /\ orq.pc = "loop" => orq.i = Len(Orden) + 1
            /\ orq.pc = "done" => (orq.exito /\ orq.exit = 0)

\* C14 witness: main has returned 0 after the JSON report failed.
C14_Witness ==
    /\ orq.pc = "done" /\ orq.exit = 0
    /\ \E k \in Fines : orq.hist[k].paso = "reporte_json" /\ orq.hist[k].code # 0
    /\ \A k \in Fines : orq.hist[k].paso # "reporte_json" => orq.hist[k].code = 0

\* C17: the stages start in the fixed order, each after the one before it
\* has ended and at most one running at a time, none twice, and a required
\* stage only after every earlier required stage ended with exit code 0.
C17_UnoALaVez ==
    /\ Cardinality(orq.corriendo) <= 1
    /\ Len(orq.hist) <= 2 * Len(Orden)
    /\ \A k \in DOMAIN orq.hist :
         IF k % 2 = 1
         THEN /\ orq.hist[k].ev = "inicio"
              /\ orq.hist[k].paso = Orden[(k + 1) \div 2]
              /\ (k = Len(orq.hist)) <=> (orq.corriendo = {orq.hist[k].paso})
              /\ orq.hist[k].paso \in Requeridos =>
                    \A j \in Fines :
                        (j < k /\ orq.hist[j].paso \in Requeridos) => orq.hist[j].code = 0
         ELSE /\ orq.hist[k].ev = "fin"
              /\ orq.hist[k].paso = orq.hist[k - 1].paso
    /\ (Len(orq.hist) % 2 = 0) => orq.corriendo = {}

\* C17 witness: all five stages have been started and have ended.
C17_Witness ==
    /\ orq.pc = "done"
    /\ Len(orq.hist) = 2 * Len(Orden)
    /\ orq.hist[2 * Len(Orden)].paso = "reporte_json"

====
